---- MODULE Spec2Model ----
(***************************************************************************)
(* The submit command of the exercism command-line client                  *)
(* (cmd/submit.go, runSubmit) as a state machine, together with the        *)
(* configuration precedence exercised by TestConfigure.                    *)
(*                                                                         *)
(* A path is a tuple of its components: <<"ws","go","a","x.go">> is        *)
(* /ws/go/a/x.go, and a tuple starting with "." is relative to Cwd.        *)
(***************************************************************************)
EXTENDS Integers, Sequences, FiniteSets, TLC

\* The longest argument list the model runs runSubmit on.
MaxArgs == 3

-----------------------------------------------------------------------------
(* The file system one invocation runs against.                            *)

DirA == <<"ws", "go", "a">>
DirB == <<"ws", "go", "b">>
DirC == <<"ws", "go", "c">>
DirD == <<"ws", "rust", "d">>
Cwd == DirA

File(data, readable) ==
    [kind |-> "file", data |-> data, readable |-> readable, target |-> <<>>]
\* A directory: its size is not zero, and reading it as a file fails.
Directory ==
    [kind |-> "dir", data |-> <<4, 0, 9, 6>>, readable |-> TRUE, target |-> <<>>]
Symlink(target) ==
    [kind |-> "symlink", data |-> <<>>, readable |-> TRUE, target |-> target]
\* An entry below a directory the user may not search: every stat of it fails.
NoAccess ==
    [kind |-> "noaccess", data |-> <<>>, readable |-> FALSE, target |-> <<>>]

FS ==
    (DirA \o <<"x.go">>      :> File(<<1, 2>>, TRUE)) @@
    (DirA \o <<"y.go">>      :> File(<<3>>, TRUE)) @@
    (DirA \o <<"empty.go">>  :> File(<<>>, TRUE)) @@
    (DirA \o <<"secret.go">> :> File(<<7>>, FALSE)) @@
    (DirA \o <<"sub">>       :> Directory) @@
    (DirA \o <<"lnk.go">>    :> Symlink(DirA \o <<"x.go">>)) @@
    (DirA \o <<"dlnk">>      :> Symlink(DirA \o <<"sub">>)) @@
    (DirA \o <<"dangling">>  :> Symlink(DirA \o <<"nope.go">>)) @@
    (DirB \o <<"z.go">>      :> File(<<5, 6, 7>>, TRUE)) @@
    (DirB \o <<"e.go">>      :> File(<<>>, TRUE)) @@
    (DirC \o <<"w.go">>      :> File(<<8>>, TRUE)) @@
    (DirD \o <<"v.go">>      :> File(<<9>>, TRUE)) @@
    (<<"tmp", "stray.go">>   :> File(<<1>>, TRUE)) @@
    (<<"root", "p.go">>      :> NoAccess)

\* The arguments a user may type: every entry above (y.go by its relative
\* name) and a path that does not exist.
ArgPaths ==
    (DOMAIN FS \ {DirA \o <<"y.go">>})
        \cup {<<".", "y.go">>, DirA \o <<"nope.go">>}

\* The solution metadata stored in each solution directory; ok is FALSE where
\* the metadata file exists and cannot be decoded.
Metadata ==
    (DirA :> [ok |-> TRUE, ID |-> "id-a", Exercise |-> "a", Track |-> "go",
              IsRequester |-> TRUE, AutoApprove |-> FALSE, URL |-> "url-a"]) @@
    (DirB :> [ok |-> TRUE, ID |-> "id-b", Exercise |-> "b", Track |-> "go",
              IsRequester |-> FALSE, AutoApprove |-> FALSE, URL |-> "url-b"]) @@
    (DirC :> [ok |-> FALSE, ID |-> "", Exercise |-> "", Track |-> "",
              IsRequester |-> FALSE, AutoApprove |-> FALSE, URL |-> ""]) @@
    (DirD :> [ok |-> TRUE, ID |-> "id-d", Exercise |-> "d", Track |-> "rust",
              IsRequester |-> TRUE, AutoApprove |-> TRUE, URL |-> "url-d"])

-----------------------------------------------------------------------------
(* The library calls runSubmit makes.                                      *)

\* filepath.Abs
Abs(p) == IF Len(p) > 0 /\ p[1] = "." THEN Cwd \o Tail(p) ELSE p

\* os.Lstat: the entry itself, a symbolic link not followed.
Lstat(p) ==
    IF p \notin DOMAIN FS THEN [err |-> "ENOENT", isDir |-> FALSE]
    ELSE IF FS[p].kind = "noaccess" THEN [err |-> "EACCES", isDir |-> FALSE]
    ELSE [err |-> "nil", isDir |-> FS[p].kind = "dir"]

\* filepath.EvalSymlinks: the entry a chain of links ends at.
RECURSIVE EvalSymlinks(_)
EvalSymlinks(p) ==
    IF p \notin DOMAIN FS THEN [err |-> "ENOENT", path |-> p]
    ELSE IF FS[p].kind = "symlink" THEN EvalSymlinks(FS[p].target)
    ELSE [err |-> "nil", path |-> p]

\* os.Stat of a path that holds no link any more.
Stat(p) ==
    IF p \notin DOMAIN FS THEN [err |-> "ENOENT", size |-> 0]
    ELSE [err |-> "nil", size |-> Len(FS[p].data)]

\* Workspace.SolutionDir: the nearest directory, from the path upwards, that
\* holds solution metadata.
Prefix(p, n) == SubSeq(p, 1, n)
SolutionDir(p) ==
    LET found == {n \in 1..Len(p) : Prefix(p, n) \in DOMAIN Metadata}
    IN IF found = {} THEN [err |-> "MissingMetadata", dir |-> <<>>]
       ELSE [err |-> "nil",
             dir |-> Prefix(p, CHOOSE n \in found : \A m \in found : m <= n)]

\* workspace.NewExerciseFromDir: root, track and slug of a solution directory.
NewExerciseFromDir(dir) ==
    IF Len(dir) >= 2
    THEN [Root |-> Prefix(dir, Len(dir) - 2),
          Track |-> dir[Len(dir) - 1], Slug |-> dir[Len(dir)]]
    ELSE [Root |-> dir, Track |-> ".", Slug |-> "."]
ExerciseFilepath(e) ==
    IF e.Track = "." THEN e.Root ELSE e.Root \o <<e.Track, e.Slug>>

\* workspace.NewSolution: the metadata of the directory; the empty directory
\* name reads the metadata of the working directory.
NewSolution(dir) ==
    LET d == IF dir = <<>> THEN Cwd ELSE dir
    IN IF d \in DOMAIN Metadata /\ Metadata[d].ok
       THEN [err |-> "nil", solution |-> Metadata[d]]
       ELSE [err |-> "ErrSolution", solution |-> Metadata[DirC]]

\* workspace.NewDocument: the file's path relative to the exercise root.
Rel(root, file) ==
    IF file = root THEN <<".">>
    ELSE SubSeq(file, Len(root) + 1, Len(file))
NewDocument(root, file) == [Root |-> root, RelativePath |-> Rel(root, file)]
DocFilepath(doc) ==
    IF doc.RelativePath = <<".">> THEN doc.Root
    ELSE doc.Root \o doc.RelativePath
DocPath(doc) == doc.RelativePath

-----------------------------------------------------------------------------
(* The state of one invocation.                                            *)

VARIABLES
    usrCfg,       \* cfg.UserViperConfig: the keys read from user.json
    apiCfg,       \* the persisted API settings (config.APIConfig)
    flags,        \* the flags given to the configure command
    existingUsr,  \* the user settings persisted before configure ran
    existingAPI,  \* the API settings persisted before configure ran
    cfgPc,        \* position of TestConfigure's loop body
    cfgRuns,      \* number of times the configure command ran
    argsIn,       \* the arguments as the user typed them
    args,         \* runSubmit's args slice, rewritten in place
    pc,           \* position of runSubmit
    i,            \* index of the running loop
    exerciseDir,  \* the solution directory accumulated so far
    solution,     \* the loaded solution metadata
    documents,    \* exercise.Documents
    errOut,       \* what was written to the diagnostic stream Err
    out,          \* what was written to the primary stream Out
    writer,       \* the multipart writer: "none", "open" or "closed"
    body,         \* the parts written to the multipart body
    handles,      \* indices of the Documents whose file handle is open
    opens,        \* number of os.Open calls made
    lstats,       \* number of os.Lstat calls made
    sizeStats,    \* number of os.Stat calls made
    lookups,      \* number of Workspace.SolutionDir calls made
    req,          \* the request built, not yet sent
    requests,     \* the requests handed to client.Do
    result        \* "running", or what runSubmit returned ("nil": success)

cfgVars == <<apiCfg, flags, existingUsr, existingAPI, cfgPc, cfgRuns>>
vars == <<usrCfg, apiCfg, flags, existingUsr, existingAPI, cfgPc, cfgRuns,
          argsIn, args,
          pc, i, exerciseDir, solution, documents, errOut, out, writer, body,
          handles, opens, lstats, sizeStats, lookups, req, requests, result>>

DefaultBaseURL == "https://api.exercism.com/v1"

NoSolution ==
    [ok |-> FALSE, ID |-> "", Exercise |-> "", Track |-> "",
     IsRequester |-> FALSE, AutoApprove |-> FALSE, URL |-> ""]
NoRequest ==
    [method |-> "", base |-> "", path |-> "", id |-> "", token |-> "",
     contentType |-> "", body |-> <<>>]
NoFlags == [token |-> <<>>, workspace |-> <<>>, api |-> <<>>]

ArgLists == UNION {[1..n -> ArgPaths] : n \in 0..MaxArgs}

\* What user.json may hold when the submit command starts.
UserConfigs ==
    [token : {"", "tok"}, workspace : {"", "/ws"},
     apibaseurl : {"", "http://example.com"}]

SubmitIdle(p, a) ==
    /\ argsIn = a /\ args = a
    /\ pc = p /\ i = 1
    /\ exerciseDir = <<>>
    /\ solution = NoSolution
    /\ documents = <<>>
    /\ errOut = <<>> /\ out = <<>>
    /\ writer = "none" /\ body = <<>>
    /\ handles = {}
    /\ opens = 0 /\ lstats = 0 /\ sizeStats = 0 /\ lookups = 0
    /\ req = NoRequest /\ requests = <<>>
    /\ result = "running"

\* submitCmd.RunE: the user settings are read, and runSubmit is entered.
Init ==
    /\ usrCfg \in UserConfigs
    /\ apiCfg = [baseurl |-> DefaultBaseURL]
    /\ flags = NoFlags
    /\ existingUsr = usrCfg
    /\ existingAPI = apiCfg
    /\ cfgPc = "idle" /\ cfgRuns = 0
    /\ \E a \in ArgLists : SubmitIdle("start", a)

-----------------------------------------------------------------------------
(* runSubmit, one action per step or loop iteration.                       *)

GetString(cfg, key) == cfg[key]

TokenMissingMut(cfg) == FALSE
TokenMissing(cfg) == GetString(cfg, "token") = ""
WorkspaceMissingMut(cfg) == GetString(cfg, "workspace") /= ""
WorkspaceMissing(cfg) == GetString(cfg, "workspace") = ""

\* Lines 54-60: the two precondition checks.
CheckConfig ==
    /\ pc = "start"
    /\ IF TokenMissing(usrCfg)
       THEN pc' = "done" /\ result' = "ErrWelcomePleaseConfigure"
       ELSE IF WorkspaceMissing(usrCfg)
       THEN pc' = "done" /\ result' = "ErrRerunConfigure"
       ELSE pc' = "normalize" /\ result' = result
    /\ i' = 1
    /\ UNCHANGED <<usrCfg, cfgVars, argsIn, args, exerciseDir, solution,
                   documents, errOut, out, writer, body, handles, opens,
                   lstats, sizeStats, lookups, req, requests>>

IsDir(info) == info.isDir

\* Lines 62-103, one iteration: absolute path, Lstat, the directory check,
\* symlink resolution, and the rewrite of args[i].
NormalizeArg ==
    /\ pc = "normalize" /\ i <= Len(args)
    /\ LET arg == Abs(args[i])
           info == Lstat(arg)
           src == EvalSymlinks(arg)
           err == IF info.err = "ENOENT" THEN "ErrNotFound"
                  ELSE IF info.err /= "nil" THEN "ErrLstat"
                  ELSE IF IsDir(info) THEN "ErrIsDirectory"
                  ELSE IF src.err /= "nil" THEN "ErrEvalSymlinks"
                  ELSE "nil"
       IN /\ lstats' = lstats + 1
          /\ IF err /= "nil"
             THEN pc' = "done" /\ result' = err /\ args' = args /\ i' = i
             ELSE /\ args' = [args EXCEPT ![i] = src.path]
                  /\ i' = i + 1
                  /\ UNCHANGED <<pc, result>>
    /\ UNCHANGED <<usrCfg, cfgVars, argsIn, exerciseDir, solution, documents,
                   errOut, out, writer, body, handles, opens, sizeStats,
                   lookups, req, requests>>

\* Lines 105-110: the workspace is made once every argument is normalized.
NewWorkspace ==
    /\ pc = "normalize" /\ i > Len(args)
    /\ pc' = "dirs" /\ i' = 1
    /\ exerciseDir' = <<>>
    /\ UNCHANGED <<usrCfg, cfgVars, argsIn, args, solution, documents, errOut,
                   out, writer, body, handles, opens, lstats, sizeStats,
                   lookups, req, requests, result>>

DifferentSolutionMut(expected, dir) == FALSE
DifferentSolution(expected, dir) == expected /= <<>> /\ dir /= expected

\* Lines 111-129, one iteration: the argument's solution directory must be
\* the one found so far.
ResolveDir ==
    /\ pc = "dirs" /\ i <= Len(args)
    /\ LET r == SolutionDir(args[i])
       IN /\ lookups' = lookups + 1
          /\ IF r.err /= "nil"
             THEN /\ pc' = "done" /\ result' = "ErrMissingMetadata"
                  /\ UNCHANGED <<exerciseDir, i>>
             ELSE IF DifferentSolution(exerciseDir, r.dir)
             THEN /\ pc' = "done" /\ result' = "ErrDifferentSolutions"
                  /\ UNCHANGED <<exerciseDir, i>>
             ELSE /\ exerciseDir' = r.dir /\ i' = i + 1
                  /\ UNCHANGED <<pc, result>>
    /\ UNCHANGED <<usrCfg, cfgVars, argsIn, args, solution, documents, errOut,
                   out, writer, body, handles, opens, lstats, sizeStats, req,
                   requests>>

NotRequesterMut(s) == FALSE
NotRequester(s) == ~s.IsRequester

\* Lines 131-151: the solution is loaded and must belong to the account.
LoadSolution ==
    /\ pc = "dirs" /\ i > Len(args)
    /\ LET r == NewSolution(exerciseDir)
       IN IF r.err /= "nil"
          THEN pc' = "done" /\ result' = r.err /\ solution' = solution
          ELSE IF NotRequester(r.solution)
          THEN pc' = "done" /\ result' = "ErrNotRequester"
               /\ solution' = r.solution
          ELSE pc' = "collect" /\ result' = result /\ solution' = r.solution
    /\ i' = 1
    /\ documents' = <<>>
    /\ UNCHANGED <<usrCfg, cfgVars, argsIn, args, exerciseDir, errOut, out,
                   writer, body, handles, opens, lstats, sizeStats, lookups,
                   req, requests>>

IsEmptyMut(info) == FALSE
IsEmpty(info) == info.size = 0

\* Lines 152-174, one iteration: an empty file is skipped with a warning, any
\* other file becomes a Document.
CollectDocument ==
    /\ pc = "collect" /\ i <= Len(args)
    /\ LET file == args[i]
           info == Stat(file)
           exercise == NewExerciseFromDir(exerciseDir)
       IN /\ sizeStats' = sizeStats + 1
          /\ IF info.err /= "nil"
             THEN /\ pc' = "done" /\ result' = "ErrStat"
                  /\ UNCHANGED <<i, errOut, documents>>
             ELSE IF IsEmpty(info)
             THEN /\ errOut' = Append(errOut, <<"WARNING: Skipping empty file", file>>)
                  /\ i' = i + 1
                  /\ UNCHANGED <<pc, result, documents>>
             ELSE /\ documents' =
                        Append(documents, NewDocument(ExerciseFilepath(exercise), file))
                  /\ i' = i + 1
                  /\ UNCHANGED <<pc, result, errOut>>
    /\ UNCHANGED <<usrCfg, cfgVars, argsIn, args, exerciseDir, solution, out,
                   writer, body, handles, opens, lstats, lookups, req,
                   requests>>

NoDocumentsMut(docs) == FALSE
NoDocuments(docs) == Len(docs) = 0

\* Lines 176-186: nothing to submit is an error; otherwise the multipart
\* writer is created over an empty body.
CheckDocuments ==
    /\ pc = "collect" /\ i > Len(args)
    /\ IF NoDocuments(documents)
       THEN pc' = "done" /\ result' = "ErrNoFiles" /\ UNCHANGED <<writer, body>>
       ELSE pc' = "package" /\ writer' = "open" /\ body' = <<>>
            /\ result' = result
    /\ i' = 1
    /\ UNCHANGED <<usrCfg, cfgVars, argsIn, args, exerciseDir, solution,
                   documents, errOut, out, handles, opens, lstats, sizeStats,
                   lookups, req, requests>>

\* Line 193: defer file.Close() runs when runSubmit returns, so the handle
\* opened for Document k stays open while the later Documents are packaged.
HandlesAfterCopy(open, k) == open \cup {k}

\* Lines 188-203, one iteration: open the Document's file, create its part,
\* copy the file into it.  A return runs the deferred closes.
PackageDocument ==
    /\ pc = "package" /\ i <= Len(documents)
    /\ LET doc == documents[i]
           path == DocFilepath(doc)
           part == [field |-> "files[]", filename |-> DocPath(doc),
                    content |-> FS[path].data]
       IN /\ opens' = opens + 1
          /\ IF ~FS[path].readable
             THEN /\ pc' = "done" /\ result' = "ErrOpen" /\ handles' = {}
                  /\ UNCHANGED <<body, i>>
             ELSE IF FS[path].kind = "dir"
             THEN \* the part's header is written, reading a directory fails
                  /\ pc' = "done" /\ result' = "ErrCopy" /\ handles' = {}
                  /\ body' = Append(body, [part EXCEPT !.content = <<>>])
                  /\ i' = i
             ELSE /\ body' = Append(body, part)
                  /\ handles' = HandlesAfterCopy(handles, i)
                  /\ i' = i + 1
                  /\ UNCHANGED <<pc, result>>
    /\ UNCHANGED <<usrCfg, cfgVars, argsIn, args, exerciseDir, solution,
                   documents, errOut, out, writer, lstats, sizeStats, lookups,
                   req, requests>>

\* Lines 205-219: the writer is closed, and the PATCH request is built for
\* <apibaseurl>/solutions/<id> with the writer's content type.
BuildRequest ==
    /\ pc = "package" /\ i > Len(documents)
    /\ writer' = "closed"
    /\ req' = [method |-> "PATCH",
               base |-> GetString(usrCfg, "apibaseurl"),
               path |-> "/solutions/", id |-> solution.ID,
               token |-> GetString(usrCfg, "token"),
               contentType |-> "multipart/form-data", body |-> body]
    /\ pc' = "do"
    /\ UNCHANGED <<usrCfg, cfgVars, argsIn, args, i, exerciseDir, solution,
                   documents, errOut, out, body, handles, opens, lstats,
                   sizeStats, lookups, requests, result>>

\* Lines 221-231: the request is sent; the transport or the reading of the
\* response may fail.
Do ==
    /\ pc = "do"
    /\ requests' = Append(requests, req)
    /\ \E outcome \in {"nil", "ErrTransport", "ErrReadResponse"} :
          IF outcome /= "nil"
          THEN pc' = "done" /\ result' = outcome /\ handles' = {}
          ELSE pc' = "confirm" /\ UNCHANGED <<result, handles>>
    /\ UNCHANGED <<usrCfg, cfgVars, argsIn, args, i, exerciseDir, solution,
                   documents, errOut, out, writer, body, opens, lstats,
                   sizeStats, lookups, req>>

\* Lines 233-244: the confirmation goes to Err, the solution's URL to Out.
Confirm ==
    /\ pc = "confirm"
    /\ LET suffix == IF solution.AutoApprove THEN "complete and unlock"
                     ELSE "View it at:"
       IN errOut' = Append(errOut, <<"submitted successfully", <<suffix>>>>)
    /\ out' = Append(out, solution.URL)
    /\ pc' = "done" /\ result' = "nil" /\ handles' = {}
    /\ UNCHANGED <<usrCfg, cfgVars, argsIn, args, i, exerciseDir, solution,
                   documents, writer, body, opens, lstats, sizeStats, lookups,
                   req, requests>>

-----------------------------------------------------------------------------
(* Configuration: the configure command as TestConfigure drives it.        *)

\* The most runs of the configure command in one behaviour.
MaxConfigure == 2

NoUserConfig == [token |-> "", workspace |-> "", apibaseurl |-> ""]
Flag(v) == <<v>>
Supplied(flag) == flag /= <<>>

\* Lines 38-62: the table of TestConfigure.  A nil existing configuration is
\* the empty one; a flag absent from args is <<>>.
Tests ==
    {[flags |-> [token |-> Flag("a"), workspace |-> Flag("/a"),
                 api |-> Flag("http://example.com")],
      existingUsr |-> [token |-> "", workspace |-> ""],
      expectedUsr |-> [token |-> "a", workspace |-> "/a"],
      expectedAPI |-> "http://example.com"],
     [flags |-> [token |-> Flag("b"), workspace |-> Flag("/b"),
                 api |-> Flag("http://example.com/v2")],
      existingUsr |-> [token |-> "token-b", workspace |-> "/workspace-b"],
      expectedUsr |-> [token |-> "b", workspace |-> "/b"],
      expectedAPI |-> "http://example.com/v2"],
     [flags |-> [token |-> Flag("c"), workspace |-> <<>>, api |-> <<>>],
      existingUsr |-> [token |-> "token-c", workspace |-> "/workspace-c"],
      expectedUsr |-> [token |-> "c", workspace |-> "/workspace-c"],
      expectedAPI |-> "https://api.exercism.com/v1"]}

\* The user settings a test may find persisted, and the flags it may pass.
ExistingUsrCfgs ==
    [token : {"", "token-b", "token-c"},
     workspace : {"", "/workspace-b", "/workspace-c"}]
FlagSets ==
    [token : {<<>>, Flag("a"), Flag("b"), Flag("c")},
     workspace : {<<>>, Flag("/a"), Flag("/b")},
     api : {<<>>, Flag("http://example.com"), Flag("http://example.com/v2")}]

\* Lines 65-81: a fresh configuration directory, into which the test writes
\* the existing user settings (token and workspace only); the existing API
\* settings of the table are never written.
WriteExisting ==
    /\ cfgPc = "fresh"
    /\ \E e \in ExistingUsrCfgs :
          /\ usrCfg' = [NoUserConfig EXCEPT !.token = e.token,
                                            !.workspace = e.workspace]
          /\ existingUsr' = usrCfg'
    /\ cfgPc' = "ready"
    /\ UNCHANGED <<apiCfg, flags, existingAPI, cfgRuns, argsIn, args, pc, i,
                   exerciseDir, solution, documents, errOut, out, writer, body,
                   handles, opens, lstats, sizeStats, lookups, req, requests,
                   result>>

\* The effective value of one key: the flag when supplied, else what is
\* persisted.
ResolveMut(flag, persisted) ==
    IF persisted /= "" THEN persisted
    ELSE IF Supplied(flag) THEN flag[1] ELSE ""
Resolve(flag, persisted) == IF Supplied(flag) THEN flag[1] ELSE persisted

\* The effective API base URL: as above, and the built-in default when that
\* yields nothing.
ResolveBaseURL(flag, persisted) ==
    LET v == Resolve(flag, persisted)
    IN IF v = "" THEN DefaultBaseURL ELSE v

\* Line 92: the configure command merges its flags into the persisted
\* settings and writes both files.
Configure ==
    /\ cfgPc \in {"ready", "written"}
    /\ cfgRuns < MaxConfigure
    /\ \E f \in FlagSets :
          /\ flags' = f
          /\ usrCfg' = [usrCfg EXCEPT
                           !.token = Resolve(f.token, usrCfg.token),
                           !.workspace = Resolve(f.workspace, usrCfg.workspace)]
          /\ apiCfg' = [baseurl |-> ResolveBaseURL(f.api, apiCfg.baseurl)]
    /\ existingUsr' = usrCfg
    /\ existingAPI' = apiCfg
    /\ cfgPc' = "written"
    /\ cfgRuns' = cfgRuns + 1
    /\ UNCHANGED <<argsIn, args, pc, i, exerciseDir, solution, documents,
                   errOut, out, writer, body, handles, opens, lstats,
                   sizeStats, lookups, req, requests, result>>

ConfigInit ==
    /\ usrCfg = NoUserConfig
    /\ apiCfg = [baseurl |-> ""]
    /\ flags = NoFlags
    /\ existingUsr = usrCfg
    /\ existingAPI = apiCfg
    /\ cfgPc = "fresh" /\ cfgRuns = 0
    /\ SubmitIdle("idle", <<>>)

ConfigNext ==
    \/ WriteExisting
    \/ Configure

ConfigSpec == ConfigInit /\ [][ConfigNext]_vars

-----------------------------------------------------------------------------

Next ==
    \/ CheckConfig
    \/ NormalizeArg
    \/ NewWorkspace
    \/ ResolveDir
    \/ LoadSolution
    \/ CollectDocument
    \/ CheckDocuments
    \/ PackageDocument
    \/ BuildRequest
    \/ Do
    \/ Confirm

Spec == Init /\ [][Next]_vars

-----------------------------------------------------------------------------
(* Properties.                                                             *)

\* What an argument as typed resolves to, and whether normalization accepts it.
ResolvedArg(a) == EvalSymlinks(Abs(a)).path
Normalizes(a) ==
    /\ Lstat(Abs(a)).err = "nil"
    /\ ~Lstat(Abs(a)).isDir
    /\ EvalSymlinks(Abs(a)).err = "nil"
Indices(seq) == 1..Len(seq)

\* The solution directories the typed arguments belong to.
ArgDirs ==
    {SolutionDir(ResolvedArg(argsIn[k])).dir :
        k \in {n \in Indices(argsIn) :
                 /\ EvalSymlinks(Abs(argsIn[n])).err = "nil"
                 /\ SolutionDir(ResolvedArg(argsIn[n])).err = "nil"}}

NothingBuiltOrSent ==
    /\ writer = "none" /\ body = <<>>
    /\ opens = 0 /\ handles = {}
    /\ req = NoRequest /\ requests = <<>>

ResolutionFailures ==
    {"ErrWelcomePleaseConfigure", "ErrRerunConfigure", "ErrNotFound",
     "ErrLstat", "ErrIsDirectory", "ErrEvalSymlinks", "ErrMissingMetadata"}

\* C1: arguments from two or more solution directories never get past the
\* directory check: runSubmit ends with the different-solutions failure or an
\* earlier one, and no body is built, no file opened, no request made.
C1_DifferentSolutionsFailEarly ==
    Cardinality(ArgDirs) >= 2 =>
        /\ NothingBuiltOrSent
        /\ pc \in {"start", "normalize", "dirs", "done"}
        /\ solution = NoSolution /\ documents = <<>>
        /\ pc = "done" =>
              result \in ResolutionFailures \cup {"ErrDifferentSolutions"}

C1_Witness ==
    /\ Cardinality(ArgDirs) >= 2
    /\ pc = "done" /\ result = "ErrDifferentSolutions"
    /\ lookups = 2 /\ Len(argsIn) = 3

\* Every argument left after normalization is a zero-byte file.
AllArgsEmpty == \A k \in Indices(args) : Stat(args[k]).size = 0
ReachedCollection == solution /= NoSolution /\ solution.IsRequester

\* C2: a request without file parts is never sent; when every argument that
\* reaches collection is empty (or there is none), runSubmit ends with the
\* no-files failure, the writer never created and no request made.
C2_NoEmptySubmission ==
    /\ \A k \in Indices(requests) : requests[k].body /= <<>>
    /\ (ReachedCollection /\ AllArgsEmpty) =>
          /\ NothingBuiltOrSent
          /\ pc \in {"collect", "done"}
          /\ pc = "done" => result = "ErrNoFiles"

C2_Witness ==
    /\ ReachedCollection /\ AllArgsEmpty
    /\ pc = "done" /\ result = "ErrNoFiles"
    /\ Len(argsIn) >= 2 /\ Len(errOut) = Len(argsIn)

\* The parts the arguments call for: one per argument of non-zero size, in
\* order, named by the path below the solution directory.
RECURSIVE ExpectedParts(_)
ExpectedParts(files) ==
    IF files = <<>> THEN <<>>
    ELSE LET f == Head(files)
             d == SolutionDir(f).dir
         IN (IF Len(FS[f].data) = 0 THEN <<>>
             ELSE <<[field |-> "files[]",
                     filename |-> SubSeq(f, Len(d) + 1, Len(f))]>>)
            \o ExpectedParts(Tail(files))
PartNames(parts) ==
    [k \in Indices(parts) |->
        [field |-> parts[k].field, filename |-> parts[k].filename]]

\* C3: once packaging has completed, the parts of the body are, in order,
\* those of the resolved arguments of non-zero size, each under "files[]"
\* with the exercise-relative path as its filename.
C3_PartsMatchNonEmptyArgs ==
    writer = "closed" => PartNames(body) = ExpectedParts(args)

C3_Witness ==
    /\ writer = "closed"
    /\ Len(args) = 3 /\ Len(body) = 2
    /\ Stat(args[2]).size = 0
    /\ body[1].filename /= body[2].filename

\* The premises of C4: configured, every argument normalizes to a regular
\* file, all in one solution directory whose solution belongs to the account,
\* and one of them is not empty.
SubmittableInput ==
    /\ usrCfg.token /= "" /\ usrCfg.workspace /= ""
    /\ argsIn /= <<>>
    /\ \A k \in Indices(argsIn) :
          /\ Normalizes(argsIn[k])
          /\ FS[ResolvedArg(argsIn[k])].kind = "file"
          /\ SolutionDir(ResolvedArg(argsIn[k])).err = "nil"
    /\ Cardinality(ArgDirs) = 1
    /\ \A d \in ArgDirs : Metadata[d].ok /\ Metadata[d].IsRequester
    /\ \E k \in Indices(argsIn) : FS[ResolvedArg(argsIn[k])].data /= <<>>
TransportFailures == {"ErrTransport", "ErrReadResponse"}
Submitted ==
    /\ result = "nil"
    /\ Len(requests) = 1 /\ requests[1].method = "PATCH"
    /\ out = <<solution.URL>>

NonEmptyReadable ==
    \A k \in Indices(argsIn) :
        FS[ResolvedArg(argsIn[k])].data /= <<>>
            => FS[ResolvedArg(argsIn[k])].readable

DenotesDirectory(a) ==
    /\ EvalSymlinks(Abs(a)).err = "nil"
    /\ FS[ResolvedArg(a)].kind = "dir"

\* C5 as claimed: once the normalization loop has completed, no entry of
\* args is a directory; and with an argument that denotes a directory,
\* directly or through a link, runSubmit looks up no metadata and ends with
\* the submitting-a-directory failure or an earlier one.
C5_NoDirectoryAfterNormalization ==
    /\ pc \notin {"start", "normalize", "done"} =>
          \A k \in Indices(args) : FS[args[k]].kind /= "dir"
    /\ (\E k \in Indices(argsIn) : DenotesDirectory(argsIn[k])) =>
          /\ lookups = 0
          /\ pc = "done" =>
                result \in {"ErrWelcomePleaseConfigure", "ErrRerunConfigure",
                            "ErrNotFound", "ErrLstat", "ErrEvalSymlinks",
                            "ErrIsDirectory"}

\* C6: after configure, token and workspace are the flag's value when the
\* flag was supplied and the persisted value otherwise, each independently of
\* the other flags; the API base URL likewise where a flag or a persisted
\* value exists; and the table of TestConfigure comes out as expected.
C6_FlagOverridesPersisted ==
    cfgPc = "written" =>
        /\ usrCfg.token =
              IF Supplied(flags.token) THEN flags.token[1]
              ELSE existingUsr.token
        /\ usrCfg.workspace =
              IF Supplied(flags.workspace) THEN flags.workspace[1]
              ELSE existingUsr.workspace
        /\ Supplied(flags.api) => apiCfg.baseurl = flags.api[1]
        /\ (~Supplied(flags.api) /\ existingAPI.baseurl /= "")
              => apiCfg.baseurl = existingAPI.baseurl
        /\ \A t \in Tests :
              (/\ cfgRuns = 1
               /\ flags = t.flags
               /\ existingUsr.token = t.existingUsr.token
               /\ existingUsr.workspace = t.existingUsr.workspace)
                  => /\ usrCfg.token = t.expectedUsr.token
                     /\ usrCfg.workspace = t.expectedUsr.workspace
                     /\ apiCfg.baseurl = t.expectedAPI

C6_Witness ==
    /\ cfgPc = "written" /\ cfgRuns = 1
    /\ flags = [token |-> Flag("c"), workspace |-> <<>>, api |-> <<>>]
    /\ existingUsr.token = "token-c" /\ existingUsr.workspace = "/workspace-c"
    /\ usrCfg.token = "c" /\ usrCfg.workspace = "/workspace-c"

\* C7 as claimed: the API base URL runSubmit uses is never empty, so the URL
\* it builds and sends has a non-empty base before /solutions/<id>.
C7_BaseURLNeverEmpty ==
    /\ req /= NoRequest => req.base /= ""
    /\ \A k \in Indices(requests) : requests[k].base /= ""

\* C8: without a token, or with a token and without a workspace, runSubmit
\* ends with the matching configure message, the token's first, having
\* touched no argument, looked up no metadata and made no request.
C8_ConfigurePreconditions ==
    /\ usrCfg.token = "" =>
          (pc = "done" => result = "ErrWelcomePleaseConfigure")
    /\ (usrCfg.token /= "" /\ usrCfg.workspace = "") =>
          (pc = "done" => result = "ErrRerunConfigure")
    /\ (usrCfg.token = "" \/ usrCfg.workspace = "") =>
          /\ pc \in {"start", "done"}
          /\ lstats = 0 /\ sizeStats = 0 /\ lookups = 0
          /\ args = argsIn
          /\ solution = NoSolution
          /\ NothingBuiltOrSent

C8_Witness ==
    /\ usrCfg.token = "" /\ usrCfg.workspace = ""
    /\ pc = "done" /\ result = "ErrWelcomePleaseConfigure"
    /\ Len(argsIn) >= 1 /\ argsIn[1] = <<".", "y.go">>

\* C9: a solution that does not belong to the account ends runSubmit with
\* the not-connected failure before collection: no size stat, no warning, no
\* Document, no body, no request.
C9_NotRequesterBlocksCollection ==
    (solution /= NoSolution /\ ~solution.IsRequester) =>
        /\ pc = "done" /\ result = "ErrNotRequester"
        /\ sizeStats = 0 /\ errOut = <<>> /\ documents = <<>>
        /\ NothingBuiltOrSent

C9_Witness ==
    /\ solution /= NoSolution /\ ~solution.IsRequester
    /\ result = "ErrNotRequester"
    /\ Len(args) = 3
    /\ \E k \in Indices(args) : Stat(args[k]).size = 0
    /\ \E k \in Indices(args) : Stat(args[k]).size /= 0

\* C10 as claimed: at most one upload file handle is open at any moment, and
\* a failure to open or copy a file ends packaging with no later file opened.
C10_OneHandleAtATime ==
    /\ Cardinality(handles) <= 1
    /\ result \in {"ErrOpen", "ErrCopy"} => opens = i

====
